---------------------------- MODULE Spec2Model ----------------------------
(***************************************************************************)
(* State-machine model of main.py: a two-tab image viewer (Interactive and *)
(* Static) with an erase/paint overlay mask, a translucent preview view    *)
(* kept in step with the primary view, and two mirror windows.             *)
(*                                                                         *)
(* Lengths are in pixels.  A pixmap is known by its size [w, h]; the       *)
(* overlay image also carries its pixels (alpha 255 = opaque black,        *)
(* alpha 0 = cleared).  The view transform is a uniform scale n/d (kept in *)
(* lowest terms) and a translation <<tx, ty>> in view pixels.              *)
(***************************************************************************)
EXTENDS Integers, Sequences, FiniteSets, TLC

\* ------------------------------------------------------------------ bounds
\* largest image width/height that a file may decode to
MaxDim == 2
\* largest brush radius the slider is moved to (the slider allows 1..200)
MaxRadius == 2
\* most wheel notches, net, in either direction since the last fitInView
MaxZoom == 1
\* largest translation component that a wheel step may reach
MaxShift == 1

\* --------------------------------------------------------- program constants
\* MyGraphicsView.__init__: brush_radius = 20; brush_slider.setValue(20)
InitialRadius == 20
\* brush_slider.setRange(1, 200): the lower end
SliderMin == 1
\* QGraphicsView.fitInView leaves a margin of 2 pixels on every side
FitMargin == 2

Sz(w, h) == [w |-> w, h |-> h]

\* a null QPixmap (an item or label without a pixmap): its size is 0 x 0
NoImage == Sz(0, 0)
\* view.overlay_image before the first load (None)
NoOverlay == [w |-> 0, h |-> 0, px |-> <<>>]

\* inputs: the sizes an opened file decodes to
Images == {Sz(w, h) : w \in 1..MaxDim, h \in 1..MaxDim}

\* inputs: the sizes the tab page (view / static label) is resized to
PageSizes == {Sz(30, 30), Sz(40, 30), Sz(40, 40), Sz(45, 33)}
\* inputs: the sizes the static mirror's label is resized to
MirrorSizes == {Sz(8, 8), Sz(11, 8), Sz(11, 13)}

\* main(): w.resize(1200, 800) before w.show(); scaled down with the lengths
InitialPage == Sz(40, 30)
\* the geometry of a child widget that has not been laid out yet
UnlaidSize == Sz(10, 3)
InitialMirror == Sz(8, 8)

Tools == {"none", "erase", "paint"}

\* ------------------------------------------------------------- arithmetic
Max(a, b) == IF a >= b THEN a ELSE b
Min(a, b) == IF a <= b THEN a ELSE b
Abs(a) == IF a >= 0 THEN a ELSE -a

RECURSIVE Gcd(_, _)
Gcd(a, b) == IF b = 0 THEN a ELSE Gcd(b, a % b)

\* a positive rational in lowest terms
Ratio(n, d) == LET g == Gcd(n, d) IN [n |-> n \div g, d |-> d \div g]

\* Python int(): truncation toward zero of a / b, b > 0
TruncDiv(a, b) == IF a >= 0 THEN a \div b ELSE -((-a) \div b)

\* qRound of a / b, b > 0
RoundDiv(a, b) == IF a >= 0 THEN (2 * a + b) \div (2 * b)
                            ELSE -((2 * (-a) + b) \div (2 * b))

Clamp(v, rng) == Max(rng[1], Min(rng[2], v))

\* ------------------------------------------------------------------ state
VARIABLES
    app,              \* "constructed" (before w.show()), "running" (app.exec()), "quit"
    mainVisible,      \* MainWindow.isVisible()
    tab,              \* tabs.currentIndex()
    pageSize,         \* size of the tab page: view.geometry() and static_label.size()
    tool,             \* view.tool
    dragMode,         \* view.dragMode()
    cursor,           \* view cursor: the arrow, or a circle of a screen radius
    brush_radius,     \* view.brush_radius
    erase_btn,        \* erase_btn.isChecked()
    paint_btn,        \* paint_btn.isChecked()
    timerActive,      \* interaction_timer.isActive()
    leftDown,         \* a left press on the view is outstanding
    handScrolling,    \* QGraphicsView is hand-drag scrolling (set by its press handler)
    pixmap_item,      \* pixmap of pixmap_item: NoImage or its size
    overlay_image,    \* view.overlay_image: NoOverlay or [w, h, px]
    overlay_item,     \* pixmap of overlay_item: NoOverlay or [w, h, px]
    preview_item,     \* pixmap of preview_item: NoImage or its size
    view_tr,          \* view.transform()
    view_h,           \* view.horizontalScrollBar().value()
    view_v,           \* view.verticalScrollBar().value()
    preview_tr,       \* preview_view.transform()
    preview_h,        \* preview_view.horizontalScrollBar().value()
    preview_v,        \* preview_view.verticalScrollBar().value()
    preview_geom,     \* size of preview_view.geometry()
    mirror_label,     \* mirror_window.label: its text, or the grabbed rendering
    static_label,     \* static_label: its text and the size of its pixmap
    smirror_original, \* static_mirror_window.original_pixmap: NoImage or its size
    smirror_label,    \* pixmap of static_mirror_window.label: NoImage or its size
    smirror_size,     \* static_mirror_window.label.size()
    mirror_main,      \* mirror_window.main_window is not None
    mirror_visible,   \* mirror_window.isVisible()
    smirror_main,     \* static_mirror_window.main_window is not None
    smirror_visible,  \* static_mirror_window.isVisible()
    dialog,           \* how the last "Open Image" ended: "none" before the first
    wheelNotches      \* net wheel notches since the last fitInView (bounds the zoom)

lifeVars == <<app, mainVisible>>
toolVars == <<tool, dragMode, cursor, erase_btn, paint_btn>>
mouseVars == <<leftDown, handScrolling>>
imageVars == <<pixmap_item, overlay_image, overlay_item, preview_item>>
viewVars == <<view_tr, view_h, view_v>>
previewVars == <<preview_tr, preview_h, preview_v>>
staticVars == <<static_label, smirror_original, smirror_label>>
winVars == <<mirror_main, mirror_visible, smirror_main, smirror_visible>>

vars == <<lifeVars, tab, pageSize, toolVars, brush_radius, timerActive, mouseVars,
          imageVars, viewVars, previewVars, preview_geom, mirror_label,
          staticVars, smirror_size, winVars, dialog, wheelNotches>>

\* -------------------------------------------------- view geometry (Qt side)
Identity == [s |-> Ratio(1, 1), tx |-> 0, ty |-> 0]

\* size of the scene rectangle: pixmap.rect(), empty before the first load
SceneW(pm) == pm.w
SceneH(pm) == pm.h

\* width in view pixels of a scene length under scale s
Extent(len, s) == RoundDiv(len * s.n, s.d)

\* QGraphicsView scroll bar range on one axis: the mapped scene rectangle
\* [t, t + extent] against a viewport of length vp; <<0, 0>> when it fits
ScrollRange(len, s, t, vp) ==
    LET left == t
        right == t + Extent(len, s) - vp
    IN IF left >= right THEN <<0, 0>> ELSE <<left, right>>

HRange(pm, tr, size) == ScrollRange(SceneW(pm), tr.s, tr.tx, size.w)
VRange(pm, tr, size) == ScrollRange(SceneH(pm), tr.s, tr.ty, size.h)

\* the mapped scene rectangle fits in a viewport of length vp
Fits(len, s, vp) == Extent(len, s) <= vp

\* QGraphicsView.mapToScene followed by overlay_item.mapFromScene and int(), on
\* one axis: view coordinate p, scroll value sv; the item sits at the scene origin
MapToItem(p, len, s, t, vp, sv) ==
    IF Fits(len, s, vp)
    THEN \* the scene is centred in the viewport
         TruncDiv((2 * p - vp) * s.d + len * s.n, 2 * s.n)
    ELSE TruncDiv((p + sv - t) * s.d, s.n)

\* QGraphicsView.fitInView(sceneRect, Qt.KeepAspectRatio): the scale is reset to
\* 1:1, then set to the smaller of the two ratios of the viewport (less its
\* margin) to the rectangle; nothing more when either is empty
FitScale(pm, size) ==
    LET vw == size.w - 2 * FitMargin
        vh == size.h - 2 * FitMargin
    IN IF vw <= 0 \/ vh <= 0 \/ pm.w <= 0 \/ pm.h <= 0 THEN Ratio(1, 1)
       ELSE IF vw * pm.h <= vh * pm.w THEN Ratio(vw, pm.w) ELSE Ratio(vh, pm.h)

\* QTransform.scale by the wheel's zoom_factor: 1.2 or 1/1.2
ZoomFactor(up) == IF up THEN Ratio(6, 5) ELSE Ratio(5, 6)
Scaled(s, z) == Ratio(s.n * z.n, s.d * z.d)

\* the values a scroll bar is hand-dragged to: the ends of its range
ScrollChoices(rng) == {rng[1], rng[2]}

\* QGraphicsView.scale / translate keep the scene point at the viewport's centre
\* (AnchorViewCenter): the scroll value on one axis after the transform went
\* from (s0, t0) to (s1, t1), the scene being centred while it fits
Recentred(sv, len, s0, t0, s1, t1, vp) ==
    LET num == IF Fits(len, s0, vp) THEN len ELSE (2 * sv + vp - 2 * t0) * s0.d
        den == IF Fits(len, s0, vp) THEN 2 ELSE 2 * s0.n
        at == TruncDiv(2 * num * s1.n + (2 * t1 - vp) * den * s1.d, 2 * den * s1.d)
    IN Clamp(at, ScrollRange(len, s1, t1, vp))

\* view.grab(): what the view shows
Render(pm, ov, tr, h, v, size) ==
    [text |-> "", pix |-> pm, ov |-> ov, tr |-> tr, h |-> h, v |-> v, size |-> size]

\* MirrorWindow.__init__: QLabel("Mirror content here.")
MirrorText ==
    [text |-> "Mirror content here.", pix |-> NoImage, ov |-> NoOverlay,
     tr |-> Identity, h |-> 0, v |-> 0, size |-> Sz(0, 0)]

\* ----------------------------------------------------- MyGraphicsView parts
BrushTools == {"erase", "paint"}

\* set_tool: the drag mode that goes with a tool
DragModeFor(tool_name) ==
    IF tool_name = "none" THEN "ScrollHandDrag" ELSE "NoDrag"

ArrowCursor == [shape |-> "arrow", radius |-> 0]

\* update_cursor: arrow without a brush tool, else a circle of the brush radius
\* scaled by the mean of the transform's two scale components
CursorFor(tool_name, radius, tr) ==
    IF tool_name \notin BrushTools THEN ArrowCursor
    ELSE [shape |-> "circle", radius |-> Max(1, TruncDiv(radius * tr.s.n, tr.s.d))]

\* set_brush_radius: the cursor is redrawn only while a brush tool is active
CursorAfterRadius(tool_name, radius, tr, old) ==
    IF tool_name \in BrushTools THEN CursorFor(tool_name, radius, tr) ELSE old

Pixels(w, h) == (0 .. w - 1) \X (0 .. h - 1)

\* variant: the new overlay filled with alpha 0
ClearOverlay(pm) ==
    [w |-> pm.w, h |-> pm.h, px |-> [p \in Pixels(pm.w, pm.h) |-> 0]]

\* load_interactive_image: QImage(pixmap.width(), pixmap.height()) filled with
\* QColor(0, 0, 0, 255)
NewOverlay(pm) ==
    [w |-> pm.w, h |-> pm.h, px |-> [p \in Pixels(pm.w, pm.h) |-> 255]]

\* drawEllipse(x - r, y - r, 2r, 2r) with no pen: the pixels whose centre lies in
\* the circle of radius r about (x, y)
Covered(p, x, y, r) ==
    (2 * p[1] + 1 - 2 * x) * (2 * p[1] + 1 - 2 * x)
      + (2 * p[2] + 1 - 2 * y) * (2 * p[2] + 1 - 2 * y) <= 4 * r * r

\* variant: a painter that clears whatever the tool
ClearAlpha(tool_name) == 0

\* the alpha that the painter writes: CompositionMode_Clear for erase,
\* CompositionMode_Source with QColor(0, 0, 0, 255) for paint
BrushAlpha(tool_name) ==
    CASE tool_name = "erase" -> 0
      [] tool_name = "paint" -> 255

\* apply_brush from the item point on: the painter draws into overlay_image,
\* which clips at its own bounds
DrawBrush(img, x, y, r, tool_name) ==
    [img EXCEPT !.px = [p \in DOMAIN img.px |->
        IF Covered(p, x, y, r) THEN BrushAlpha(tool_name) ELSE img.px[p]]]

\* apply_brush(view_pos) on an overlay img shown through transform tr with
\* scroll values h, v in a view of the given size
ApplyBrush(img, pos, tr, h, v, size, r, tool_name) ==
    IF img = NoOverlay THEN img
    ELSE LET x == MapToItem(pos[1], img.w, tr.s, tr.tx, size.w, h)
             y == MapToItem(pos[2], img.h, tr.s, tr.ty, size.h, v)
         IN DrawBrush(img, x, y, r, tool_name)

\* inputs: the view positions of a press or a move
ViewPoints(size) == {0, size.w \div 2, size.w - 1} \X {0, size.h \div 2, size.h - 1}

\* ------------------------------------------------------ static image parts
\* variant: QPixmap.scaled(size, Qt.IgnoreAspectRatio)
Stretched(pm, box) == box

\* QPixmap.scaled(size, Qt.KeepAspectRatio): QSize.scaled, each side at least 1;
\* a null pixmap for an empty size
ScaledSize(pm, box) ==
    IF pm.w <= 0 \/ pm.h <= 0 \/ box.w <= 0 \/ box.h <= 0 THEN NoImage
    ELSE LET rw == (box.h * pm.w) \div pm.h
             fit == IF rw <= box.w THEN Sz(rw, box.h)
                    ELSE Sz(box.w, (box.w * pm.h) \div pm.w)
         IN Sz(Max(fit.w, 1), Max(fit.h, 1))

\* StaticMirrorWindow.update_display
UpdateDisplay(original, size, old) ==
    IF original = NoImage THEN old ELSE ScaledSize(original, size)

\* a QLabel showing a pixmap is never laid out smaller than the pixmap
LabelAllows(label_pm, size) ==
    label_pm.w <= size.w /\ label_pm.h <= size.h

\* ---------------------------------------------------------- mirror windows
\* variant: a closeEvent that accepts every request
CloseAlways(main_window, main_visible) == TRUE

\* MirrorWindow.closeEvent / StaticMirrorWindow.closeEvent: ignored while the
\* main window is set and visible
CloseAccepted(main_window, main_visible) == ~(main_window /\ main_visible)

\* ------------------------------------------------------------ construction
\* MainWindow.__init__ and the windows it creates, before main() shows it
Init ==
    /\ app = "constructed"
    /\ mainVisible = FALSE
    /\ tab = 0
    /\ pageSize = UnlaidSize
    /\ tool = "none"
    /\ dragMode = "ScrollHandDrag"
    /\ cursor = ArrowCursor
    /\ brush_radius = InitialRadius
    /\ erase_btn = FALSE
    /\ paint_btn = FALSE
    /\ timerActive = FALSE
    /\ leftDown = FALSE
    /\ handScrolling = FALSE
    /\ pixmap_item = NoImage
    /\ overlay_image = NoOverlay
    /\ overlay_item = NoOverlay
    /\ preview_item = NoImage
    /\ view_tr = Identity
    /\ view_h = 0
    /\ view_v = 0
    /\ preview_tr = Identity
    /\ preview_h = 0
    /\ preview_v = 0
    /\ preview_geom = UnlaidSize
    /\ mirror_label = MirrorText
    /\ static_label = [text |-> "No image loaded yet", pm |-> NoImage]
    /\ smirror_original = NoImage
    /\ smirror_label = NoImage
    /\ smirror_size = InitialMirror
    /\ mirror_main = TRUE
    /\ mirror_visible = TRUE
    /\ smirror_main = TRUE
    /\ smirror_visible = TRUE
    /\ dialog = "none"
    /\ wheelNotches = 0

\* --------------------------------------------------------- handler fragments
\* MainWindow.sync_preview_transform: QScrollBar.setValue keeps the value within
\* the preview scroll bar's own range
SyncPreview(tr, h, v, pitem, geom) ==
    /\ preview_tr' = tr
    /\ preview_h' = Clamp(h, HRange(pitem, tr, geom))
    /\ preview_v' = Clamp(v, VRange(pitem, tr, geom))

\* MainWindow.update_mirror, but for its update_cursor call
UpdateMirror(pm, ov, tr, h, v, size, pitem, geom) ==
    /\ mirror_label' = Render(pm, ov, tr, h, v, size)
    /\ SyncPreview(tr, h, v, pitem, geom)

\* MyGraphicsView.set_tool
SetTool(tool_name) ==
    /\ tool' = tool_name
    /\ dragMode' = DragModeFor(tool_name)
    /\ cursor' = CursorFor(tool_name, brush_radius, view_tr)

\* MainWindow.resizeEvent after the layout gave the tab page the new size: the
\* view's scroll bars keep their values within the new ranges (a change runs
\* sync_preview_transform), then the preview takes the view's geometry on tab 0
ResizeTo(size) ==
    LET vh == Clamp(view_h, HRange(pixmap_item, view_tr, size))
        vv == Clamp(view_v, VRange(pixmap_item, view_tr, size))
        moved == vh # view_h \/ vv # view_v
        ptr == IF moved THEN view_tr ELSE preview_tr
        ph == IF moved THEN Clamp(vh, HRange(preview_item, ptr, preview_geom))
                       ELSE preview_h
        pv == IF moved THEN Clamp(vv, VRange(preview_item, ptr, preview_geom))
                       ELSE preview_v
        geom == IF tab = 0 THEN size ELSE preview_geom
    IN /\ pageSize' = size
       /\ view_h' = vh
       /\ view_v' = vv
       /\ view_tr' = view_tr
       /\ preview_geom' = geom
       /\ preview_tr' = ptr
       /\ preview_h' = Clamp(ph, HRange(preview_item, ptr, geom))
       /\ preview_v' = Clamp(pv, VRange(preview_item, ptr, geom))

\* ------------------------------------------------------------------ actions
\* main(): w.resize(...); w.show(); app.exec()
Show ==
    /\ app = "constructed"
    /\ app' = "running"
    /\ mainVisible' = TRUE
    /\ ResizeTo(InitialPage)
    /\ UNCHANGED <<tab, toolVars, brush_radius, timerActive, mouseVars, imageVars,
                   mirror_label, staticVars, smirror_size, winVars, dialog, wheelNotches>>

\* the user resizes the main window
Resize(size) ==
    /\ app = "running"
    /\ size # pageSize
    /\ LabelAllows(static_label.pm, size)
    /\ ResizeTo(size)
    /\ UNCHANGED <<lifeVars, tab, toolVars, brush_radius, timerActive, mouseVars,
                   imageVars, mirror_label, staticVars, smirror_size, winVars, dialog, wheelNotches>>

\* the user selects the other tab
SelectTab(i) ==
    /\ app = "running"
    /\ i # tab
    /\ tab' = i
    /\ UNCHANGED <<lifeVars, pageSize, toolVars, brush_radius, timerActive, mouseVars,
                   imageVars, viewVars, previewVars, preview_geom, mirror_label,
                   staticVars, smirror_size, winVars, dialog, wheelNotches>>

\* on_open_image: what the dialog and QPixmap(path) give: no path, a file that
\* does not decode (a null pixmap), or a pixmap
DialogResults(imgs) ==
    {[kind |-> "cancel", pm |-> NoImage], [kind |-> "undecodable", pm |-> NoImage]}
      \cup {[kind |-> "ok", pm |-> img] : img \in imgs}

\* variant: on_open_image without the isNull test
CancelAborts(res) == res.kind = "cancel"

\* on_open_image: `if not path: return` and `if pm.isNull(): return`
LoadAborts(res) == res.kind = "cancel" \/ res.pm = NoImage

\* variant: a load without the tool reset
KeepTool == UNCHANGED toolVars

\* load_interactive_image, "Tool reset": both buttons un-checked, set_tool("none")
ResetTool ==
    /\ erase_btn' = FALSE
    /\ paint_btn' = FALSE
    /\ SetTool("none")

\* MainWindow.load_interactive_image
LoadInteractive(pm) ==
    LET tr == [view_tr EXCEPT !.s = FitScale(pm, pageSize)]
        vh == Clamp(view_h, HRange(pm, tr, pageSize))
        vv == Clamp(view_v, VRange(pm, tr, pageSize))
        ov == NewOverlay(pm)
    IN /\ pixmap_item' = pm
       /\ view_tr' = tr
       /\ view_h' = vh
       /\ view_v' = vv
       /\ overlay_image' = ov
       /\ overlay_item' = ov
       /\ preview_item' = pm
       /\ ResetTool
       /\ UpdateMirror(pm, ov, tr, vh, vv, pageSize, pm, preview_geom)
       /\ wheelNotches' = 0
       /\ UNCHANGED <<lifeVars, tab, pageSize, brush_radius, timerActive, mouseVars,
                      preview_geom, staticVars, smirror_size, winVars>>

\* MainWindow.load_static_image and StaticMirrorWindow.set_image
LoadStatic(pm) ==
    /\ static_label' = [text |-> "", pm |-> ScaledSize(pm, pageSize)]
    /\ smirror_original' = pm
    /\ smirror_label' = UpdateDisplay(pm, smirror_size, smirror_label)
    /\ UNCHANGED <<lifeVars, tab, pageSize, toolVars, brush_radius, timerActive,
                   mouseVars, imageVars, viewVars, previewVars, preview_geom,
                   mirror_label, smirror_size, winVars, wheelNotches>>

\* MainWindow.on_open_image, the dialog ending with res
OpenImage(res) ==
    /\ app = "running"
    /\ dialog' = res.kind
    /\ IF LoadAborts(res)
       THEN UNCHANGED <<lifeVars, tab, pageSize, toolVars, brush_radius,
                        timerActive, mouseVars, imageVars, viewVars, previewVars,
                        preview_geom, mirror_label, staticVars, smirror_size,
                        winVars, wheelNotches>>
       ELSE IF tab = 0 THEN LoadInteractive(res.pm)
                       ELSE LoadStatic(res.pm)

\* variant: a click that leaves the other button alone
OtherKept(checked, other) == other

\* on_erase_clicked / on_paint_clicked: the other button after a click
OtherAfterClick(checked, other) == IF checked THEN FALSE ELSE other

\* variant: an un-checking click that leaves the tool as it was
ToolStuck(checked, other, mine, old) == IF checked THEN mine ELSE old

\* on_erase_clicked / on_paint_clicked: the tool after a click on the button of
\* tool `mine`
ToolAfterClick(checked, other, mine, old) ==
    IF checked THEN mine
    ELSE IF ~other THEN "none" ELSE old

\* a click toggles the Erase button, then MainWindow.on_erase_clicked(checked)
EraseClicked ==
    /\ app = "running"
    /\ LET checked == ~erase_btn
       IN /\ erase_btn' = checked
          /\ paint_btn' = OtherAfterClick(checked, paint_btn)
          /\ IF checked \/ ~paint_btn
             THEN SetTool(ToolAfterClick(checked, paint_btn, "erase", tool))
             ELSE UNCHANGED <<tool, dragMode, cursor>>
    /\ UNCHANGED <<lifeVars, tab, pageSize, brush_radius, timerActive, mouseVars,
                   imageVars, viewVars, previewVars, preview_geom, mirror_label,
                   staticVars, smirror_size, winVars, dialog, wheelNotches>>

\* a click toggles the Paint button, then MainWindow.on_paint_clicked(checked)
PaintClicked ==
    /\ app = "running"
    /\ LET checked == ~paint_btn
       IN /\ paint_btn' = checked
          /\ erase_btn' = OtherAfterClick(checked, erase_btn)
          /\ IF checked \/ ~erase_btn
             THEN SetTool(ToolAfterClick(checked, erase_btn, "paint", tool))
             ELSE UNCHANGED <<tool, dragMode, cursor>>
    /\ UNCHANGED <<lifeVars, tab, pageSize, brush_radius, timerActive, mouseVars,
                   imageVars, viewVars, previewVars, preview_geom, mirror_label,
                   staticVars, smirror_size, winVars, dialog, wheelNotches>>

\* the slider moves to val: MainWindow.on_brush_slider_changed, set_brush_radius
BrushSliderChanged(val) ==
    /\ app = "running"
    /\ val # brush_radius
    /\ brush_radius' = val
    /\ cursor' = CursorAfterRadius(tool, val, view_tr, cursor)
    /\ UNCHANGED <<lifeVars, tab, pageSize, tool, dragMode, erase_btn, paint_btn,
                   timerActive, mouseVars, imageVars, viewVars, previewVars,
                   preview_geom, mirror_label, staticVars, smirror_size, winVars,
                   dialog, wheelNotches>>

\* variant: a wheelEvent without the tool test
WheelAlways(tool_name) == FALSE

\* wheelEvent: `if self.tool != "none": return`
WheelIgnored(tool_name) == tool_name # "none"

\* MyGraphicsView.wheelEvent; shift is what translate(delta) adds to the
\* transform's translation, which depends on where the pointer is
Wheel(up, shift) ==
    /\ app = "running"
    /\ tab = 0
    /\ IF WheelIgnored(tool)
       THEN UNCHANGED vars
       ELSE LET tr == [s |-> Scaled(view_tr.s, ZoomFactor(up)),
                       tx |-> view_tr.tx + shift[1],
                       ty |-> view_tr.ty + shift[2]]
                notches == wheelNotches + (IF up THEN 1 ELSE -1)
            IN /\ Abs(notches) <= MaxZoom
               /\ wheelNotches' = notches
               /\ Abs(tr.tx) <= MaxShift
               /\ Abs(tr.ty) <= MaxShift
               /\ timerActive' = TRUE
               /\ view_tr' = tr
               /\ LET h == Recentred(view_h, SceneW(pixmap_item), view_tr.s,
                                     view_tr.tx, tr.s, tr.tx, pageSize.w)
                      v == Recentred(view_v, SceneH(pixmap_item), view_tr.s,
                                     view_tr.ty, tr.s, tr.ty, pageSize.h)
                  IN /\ view_h' = h
                     /\ view_v' = v
                     /\ UpdateMirror(pixmap_item, overlay_item, tr, h, v, pageSize,
                                     preview_item, preview_geom)
               /\ cursor' = CursorAfterRadius(tool, brush_radius, tr, cursor)
               /\ UNCHANGED <<lifeVars, tab, pageSize, tool, dragMode, erase_btn,
                              paint_btn, brush_radius, mouseVars, imageVars,
                              preview_geom, staticVars, smirror_size, winVars,
                              dialog>>

\* MyGraphicsView.mousePressEvent, then QGraphicsView's own press handler
MousePress(button, pos) ==
    /\ app = "running"
    /\ tab = 0
    /\ IF button = "left"
       THEN /\ ~leftDown
            /\ leftDown' = TRUE
            /\ handScrolling' = (dragMode = "ScrollHandDrag")
            /\ timerActive' = TRUE
            /\ IF tool \in BrushTools
               THEN LET ov == ApplyBrush(overlay_image, pos, view_tr, view_h, view_v,
                                         pageSize, brush_radius, tool)
                        item == IF overlay_image = NoOverlay THEN overlay_item ELSE ov
                    IN /\ overlay_image' = ov
                       /\ overlay_item' = item
                       /\ UpdateMirror(pixmap_item, item, view_tr, view_h, view_v,
                                       pageSize, preview_item, preview_geom)
                       /\ cursor' = CursorAfterRadius(tool, brush_radius, view_tr, cursor)
               ELSE UNCHANGED <<overlay_image, overlay_item, mirror_label,
                                previewVars, cursor>>
            /\ UNCHANGED <<lifeVars, tab, pageSize, tool, dragMode, erase_btn,
                           paint_btn, brush_radius, pixmap_item, preview_item,
                           viewVars, preview_geom, staticVars, smirror_size, winVars,
                           dialog, wheelNotches>>
       ELSE UNCHANGED vars

\* MyGraphicsView.mouseReleaseEvent, then QGraphicsView's own release handler
MouseRelease(button) ==
    /\ app = "running"
    /\ IF button = "left"
       THEN /\ leftDown
            /\ leftDown' = FALSE
            /\ handScrolling' = FALSE
            /\ UpdateMirror(pixmap_item, overlay_item, view_tr, view_h, view_v,
                            pageSize, preview_item, preview_geom)
            /\ cursor' = CursorAfterRadius(tool, brush_radius, view_tr, cursor)
            /\ timerActive' = FALSE
            /\ UNCHANGED <<lifeVars, tab, pageSize, tool, dragMode, erase_btn,
                           paint_btn, brush_radius, imageVars, viewVars,
                           preview_geom, staticVars, smirror_size, winVars, dialog, wheelNotches>>
       ELSE UNCHANGED vars

\* MyGraphicsView.mouseMoveEvent with the pointer at pos, then QGraphicsView's
\* own move handler, which hand-drags the scroll bars (each change of value runs
\* sync_preview_transform)
MouseMove(pos) ==
    /\ app = "running"
    /\ IF tool \in BrushTools /\ leftDown
       THEN LET ov == ApplyBrush(overlay_image, pos, view_tr, view_h, view_v,
                                 pageSize, brush_radius, tool)
                item == IF overlay_image = NoOverlay THEN overlay_item ELSE ov
            IN /\ overlay_image' = ov
               /\ overlay_item' = item
               /\ UpdateMirror(pixmap_item, item, view_tr, view_h, view_v,
                               pageSize, preview_item, preview_geom)
               /\ cursor' = CursorAfterRadius(tool, brush_radius, view_tr, cursor)
               /\ UNCHANGED <<lifeVars, tab, pageSize, tool, dragMode, erase_btn,
                              paint_btn, brush_radius, timerActive, mouseVars,
                              pixmap_item, preview_item, viewVars, preview_geom,
                              staticVars, smirror_size, winVars, dialog, wheelNotches>>
       ELSE IF dragMode = "ScrollHandDrag" /\ handScrolling
       THEN /\ \E h \in ScrollChoices(HRange(pixmap_item, view_tr, pageSize)),
                  v \in ScrollChoices(VRange(pixmap_item, view_tr, pageSize)) :
                 /\ view_h' = h
                 /\ view_v' = v
                 /\ IF h # view_h \/ v # view_v
                    THEN SyncPreview(view_tr, h, v, preview_item, preview_geom)
                    ELSE UNCHANGED previewVars
            /\ view_tr' = view_tr
            /\ UNCHANGED <<lifeVars, tab, pageSize, toolVars, brush_radius,
                           timerActive, mouseVars, imageVars, preview_geom,
                           mirror_label, staticVars, smirror_size, winVars, dialog, wheelNotches>>
       ELSE UNCHANGED vars

\* interaction_timer.timeout while the timer is active: update_mirror
TimerTick ==
    /\ app = "running"
    /\ timerActive
    /\ UpdateMirror(pixmap_item, overlay_item, view_tr, view_h, view_v, pageSize,
                    preview_item, preview_geom)
    /\ cursor' = CursorAfterRadius(tool, brush_radius, view_tr, cursor)
    /\ UNCHANGED <<lifeVars, tab, pageSize, tool, dragMode, erase_btn, paint_btn,
                   brush_radius, timerActive, mouseVars, imageVars, viewVars,
                   preview_geom, staticVars, smirror_size, winVars, dialog, wheelNotches>>

\* the user resizes the static mirror: StaticMirrorWindow.resizeEvent
StaticMirrorResize(size) ==
    /\ app = "running"
    /\ size # smirror_size
    /\ LabelAllows(smirror_label, size)
    /\ smirror_size' = size
    /\ smirror_label' = UpdateDisplay(smirror_original, size, smirror_label)
    /\ UNCHANGED <<lifeVars, tab, pageSize, toolVars, brush_radius, timerActive,
                   mouseVars, imageVars, viewVars, previewVars, preview_geom,
                   mirror_label, static_label, smirror_original, winVars, dialog, wheelNotches>>

\* a close request on the interactive mirror: MirrorWindow.closeEvent
MirrorClose ==
    /\ app = "running"
    /\ mirror_visible
    /\ mirror_visible' = ~CloseAccepted(mirror_main, mainVisible)
    /\ UNCHANGED <<lifeVars, tab, pageSize, toolVars, brush_radius, timerActive,
                   mouseVars, imageVars, viewVars, previewVars, preview_geom,
                   mirror_label, staticVars, smirror_size, mirror_main,
                   smirror_main, smirror_visible, dialog, wheelNotches>>

\* a close request on the static mirror: StaticMirrorWindow.closeEvent
StaticMirrorClose ==
    /\ app = "running"
    /\ smirror_visible
    /\ smirror_visible' = ~CloseAccepted(smirror_main, mainVisible)
    /\ UNCHANGED <<lifeVars, tab, pageSize, toolVars, brush_radius, timerActive,
                   mouseVars, imageVars, viewVars, previewVars, preview_geom,
                   mirror_label, staticVars, smirror_size, mirror_main,
                   mirror_visible, smirror_main, dialog, wheelNotches>>

\* the user closes the main window: MainWindow.closeEvent detaches and closes
\* both mirrors, then accepts; with the last window closed app.exec() returns
MainClose ==
    /\ app = "running"
    /\ mirror_main' = FALSE
    /\ mirror_visible' = (mirror_visible /\ ~CloseAccepted(FALSE, mainVisible))
    /\ smirror_main' = FALSE
    /\ smirror_visible' = (smirror_visible /\ ~CloseAccepted(FALSE, mainVisible))
    /\ mainVisible' = FALSE
    /\ app' = "quit"
    /\ UNCHANGED <<tab, pageSize, toolVars, brush_radius, timerActive, mouseVars,
                   imageVars, viewVars, previewVars, preview_geom, mirror_label,
                   staticVars, smirror_size, dialog, wheelNotches>>

Buttons == {"left", "right"}

\* ----------------------------------------------------------- specifications
\* The whole program, every handler, on the smallest inputs: one 1 x 1 image,
\* two page sizes, one static-mirror resize, one slider position.
Next ==
    \/ Show
    \/ \E size \in {Sz(40, 30), Sz(30, 30)} : Resize(size)
    \/ \E i \in {0, 1} : SelectTab(i)
    \/ \E res \in DialogResults({Sz(1, 1)}) : OpenImage(res)
    \/ EraseClicked
    \/ PaintClicked
    \/ BrushSliderChanged(SliderMin)
    \/ \E up \in BOOLEAN, shift \in {<<0, 0>>, <<1, 0>>} : Wheel(up, shift)
    \/ \E button \in Buttons : MousePress(button, <<pageSize.w \div 2, pageSize.h \div 2>>)
    \/ \E button \in Buttons : MouseRelease(button)
    \/ MouseMove(<<0, 0>>)
    \/ TimerTick
    \/ StaticMirrorResize(Sz(12, 8))
    \/ MirrorClose
    \/ StaticMirrorClose
    \/ MainClose

Spec == Init /\ [][Next]_vars

\* The brush on every image size, slider position and view position, in the
\* window as shown: loads on the Interactive tab, tool buttons, slider, strokes.
NextBrush ==
    \/ Show
    \/ \E pm \in Images : OpenImage([kind |-> "ok", pm |-> pm])
    \/ EraseClicked
    \/ PaintClicked
    \/ \E val \in SliderMin .. MaxRadius : BrushSliderChanged(val)
    \/ \E pos \in ViewPoints(pageSize) : MousePress("left", pos)
    \/ \E pos \in ViewPoints(pageSize) : MouseMove(pos)
    \/ MouseRelease("left")

SpecBrush == Init /\ [][NextBrush]_vars

\* The static image on every image size, page size and static-mirror size:
\* loads on both tabs, window resizes, static-mirror resizes.
NextStatic ==
    \/ Show
    \/ \E size \in PageSizes : Resize(size)
    \/ \E i \in {0, 1} : SelectTab(i)
    \/ \E res \in DialogResults(Images) : OpenImage(res)
    \/ \E size \in MirrorSizes : StaticMirrorResize(size)

SpecStatic == Init /\ [][NextStatic]_vars

\* ------------------------------------------------------------------ claims
\* the steps of the handlers the claims speak of
AllShifts == (-1 .. 1) \X (-1 .. 1)
WheelStep == \E up \in BOOLEAN, shift \in AllShifts : Wheel(up, shift)
LoadStep == \E pm \in Images : OpenImage([kind |-> "ok", pm |-> pm])
AbortStep == \E res \in DialogResults({}) : OpenImage(res)
HandDragStep ==
    /\ dragMode = "ScrollHandDrag"
    /\ handScrolling
    /\ \E pos \in ViewPoints(pageSize) : MouseMove(pos)
ReleaseStep == MouseRelease("left")

\* C1: while the program runs, the mirror refresh timer is active if and only
\* if a left press on the Primary View is outstanding (an interaction is open).
C1_TimerIffInteraction ==
    app = "running" => (timerActive <=> leftDown)

\* C2: the Erase and Paint buttons are never both checked, and whenever a step
\* un-checks one of them while the other is and stays unchecked, Tool Mode
\* becomes "none".
C2_ExclusiveToolButtons ==
    /\ [](~(erase_btn /\ paint_btn))
    /\ [][((erase_btn /\ ~erase_btn' /\ ~paint_btn /\ ~paint_btn')
            \/ (paint_btn /\ ~paint_btn' /\ ~erase_btn /\ ~erase_btn'))
           => tool' = "none"]_vars

\* C2 witness: after a load, Paint was clicked while Erase was the active tool.
C2_Witness ==
    /\ pixmap_item # NoImage
    /\ paint_btn
    /\ ~erase_btn
    /\ tool = "paint"

\* C4 as stated: every successful "open image", on either tab, leaves Tool Mode
\* and Brush Radius as they were.
C4_ToolAndRadiusPersist ==
    [][LoadStep => (tool' = tool /\ brush_radius' = brush_radius)]_vars

\* C4 as amended: every successful "open image" leaves Brush Radius as it was;
\* on the Static tab it leaves Tool Mode as it was, and on the Interactive tab
\* it sets Tool Mode to "none" and un-checks both tool buttons.
C4_RadiusPersistsToolResets ==
    [][LoadStep =>
         /\ brush_radius' = brush_radius
         /\ (tab = 1 => (tool' = tool /\ erase_btn' = erase_btn /\ paint_btn' = paint_btn))
         /\ (tab = 0 => (tool' = "none" /\ ~erase_btn' /\ ~paint_btn'))]_vars

\* C4 witness: images are loaded on both tabs, the last dialog gave an image, the
\* slider has been moved and a brush tool is active.
C4_Witness ==
    /\ dialog = "ok"
    /\ pixmap_item # NoImage
    /\ static_label.pm # NoImage
    /\ brush_radius # InitialRadius
    /\ tool = "erase"

\* C5: an "open image" that ends with no path or with a null pixmap changes
\* nothing: images, overlay, preview, static label, static mirror, transforms,
\* Tool Mode, buttons and timer are as before.
C5_AbortChangesNothing ==
    [][AbortStep =>
         UNCHANGED <<lifeVars, tab, pageSize, toolVars, brush_radius, timerActive,
                     mouseVars, imageVars, viewVars, previewVars, preview_geom,
                     mirror_label, staticVars, smirror_size, winVars>>]_vars

\* C5 witness: the last dialog was cancelled in a state with images on both tabs,
\* an erased overlay pixel, a brush tool and a running timer.
C5_Witness ==
    /\ dialog = "cancel"
    /\ pixmap_item # NoImage
    /\ overlay_image # NewOverlay(pixmap_item)
    /\ static_label.pm # NoImage
    /\ tool = "erase"
    /\ timerActive

\* C6: until the main window's closeEvent runs both mirrors stay attached and
\* open, every close request on them being ignored; the main window's closeEvent
\* detaches both and its close requests on them are accepted, so both are closed.
C6_MirrorsCloseOnlyWithMain ==
    /\ [](app # "quit" => (mirror_main /\ smirror_main /\ mirror_visible /\ smirror_visible))
    /\ [](app = "quit" => (~mirror_main /\ ~smirror_main /\ ~mirror_visible /\ ~smirror_visible))
    /\ [][((MirrorClose \/ StaticMirrorClose) /\ mainVisible)
           => (mirror_visible' /\ smirror_visible')]_vars

\* C6 witness: the main window has been closed and both mirrors with it.
C6_Witness ==
    /\ app = "quit"
    /\ ~mainVisible
    /\ ~mirror_visible
    /\ ~smirror_visible

\* C9: the view hand-drags if and only if Tool Mode is "none", and a wheel event
\* in Tool Mode "erase" or "paint" leaves the view transform and scroll values,
\* the overlay, the mirror snapshot and the timer as they were.
C9_ZoomPanOnlyWithoutTool ==
    /\ [](dragMode = "ScrollHandDrag" <=> tool = "none")
    /\ [][(tool \in BrushTools /\ WheelStep)
           => UNCHANGED <<viewVars, overlay_image, overlay_item, mirror_label,
                          timerActive>>]_vars

\* C9 witness: a brush tool is active on a loaded image shown on the Interactive
\* tab, where wheel events arrive.
C9_Witness ==
    /\ app = "running"
    /\ tab = 0
    /\ pixmap_item # NoImage
    /\ tool = "paint"
    /\ dragMode = "NoDrag"

\* C10: after a wheel zoom, a hand-drag scroll, an interactive load or a left
\* release, the Preview View's transform and scroll values equal the Primary
\* View's.
C10_PreviewInLockstep ==
    [][(WheelStep \/ HandDragStep \/ (LoadStep /\ tab = 0) \/ ReleaseStep)
        => (preview_tr' = view_tr' /\ preview_h' = view_h' /\ preview_v' = view_v')]_vars


\* C3: a load on the Interactive tab gives an overlay of the new base image's
\* width and height with every pixel opaque, whatever was erased or painted
\* before; and whenever an overlay exists its width and height are those of the
\* current base image.
C3_OverlayMatchesBase ==
    /\ [](overlay_image # NoOverlay =>
            /\ overlay_image.w = pixmap_item.w
            /\ overlay_image.h = pixmap_item.h
            /\ DOMAIN overlay_image.px = Pixels(pixmap_item.w, pixmap_item.h)
            /\ overlay_item = overlay_image)
    /\ [][(LoadStep /\ tab = 0) =>
            /\ overlay_image'.w = pixmap_item'.w
            /\ overlay_image'.h = pixmap_item'.h
            /\ \A p \in Pixels(pixmap_item'.w, pixmap_item'.h) : overlay_image'.px[p] = 255]_vars

\* C3 witness: an image wider than high is loaded and its overlay has been
\* erased in part.
C3_Witness ==
    /\ dialog = "ok"
    /\ pixmap_item.w > pixmap_item.h
    /\ \E p, q \in DOMAIN overlay_image.px :
         overlay_image.px[p] = 0 /\ overlay_image.px[q] = 255

\* the brush applied at view position pos with the radius r, in the current view
Stroke(img, pos, r, tool_name) ==
    ApplyBrush(img, pos, view_tr, view_h, view_v, pageSize, r, tool_name)
\* the item point that apply_brush computes for pos
ItemPoint(pos) ==
    <<MapToItem(pos[1], overlay_image.w, view_tr.s, view_tr.tx, pageSize.w, view_h),
      MapToItem(pos[2], overlay_image.h, view_tr.s, view_tr.ty, pageSize.h, view_v)>>
Radii == (SliderMin .. MaxRadius) \cup {InitialRadius}

\* C7: for every reachable overlay, view position and radius, the brush applied
\* with "erase" and then with "paint" at that position and radius leaves every
\* pixel in the brush circle opaque (255) and every other pixel as it was.
C7_EraseThenPaintRestores ==
    overlay_image # NoOverlay =>
      \A pos \in ViewPoints(pageSize), r \in Radii :
        LET erased == Stroke(overlay_image, pos, r, "erase")
            painted == Stroke(erased, pos, r, "paint")
            at == ItemPoint(pos)
        IN /\ DOMAIN painted.px = DOMAIN overlay_image.px
           /\ \A p \in DOMAIN overlay_image.px :
                /\ Covered(p, at[1], at[2], r) => (erased.px[p] = 0 /\ painted.px[p] = 255)
                /\ ~Covered(p, at[1], at[2], r) =>
                      (erased.px[p] = overlay_image.px[p] /\ painted.px[p] = overlay_image.px[p])

\* C7 witness: a paint stroke is in progress on an overlay that has a cleared
\* pixel outside and an opaque pixel inside a circle of the current radius.
C7_Witness ==
    /\ tool = "paint"
    /\ leftDown
    /\ brush_radius <= MaxRadius
    /\ \E pos \in ViewPoints(pageSize), p, q \in DOMAIN overlay_image.px :
         /\ Covered(p, ItemPoint(pos)[1], ItemPoint(pos)[2], brush_radius)
         /\ overlay_image.px[p] = 255
         /\ ~Covered(q, ItemPoint(pos)[1], ItemPoint(pos)[2], brush_radius)
         /\ overlay_image.px[q] = 0

\* a pixmap of size shown fits a label of size label and has the aspect ratio
\* of original up to the rounding of one side to whole pixels
FitsKeepingAspect(shown, original, label) ==
    /\ shown.w >= 1
    /\ shown.h >= 1
    /\ shown.w <= label.w
    /\ shown.h <= label.h
    /\ Abs(shown.w * original.h - shown.h * original.w) < Max(original.w, original.h)

\* C8: after any loads and resizes, the pixmap in the static label (and the one
\* in the static mirror's label) has the loaded image's aspect ratio up to
\* integer rounding and is no wider and no higher than its label.
C8_StaticScalingFits ==
    smirror_original # NoImage =>
      /\ FitsKeepingAspect(static_label.pm, smirror_original, pageSize)
      /\ FitsKeepingAspect(smirror_label, smirror_original, smirror_size)

\* C8 witness: a static image is shown, the window has been resized since the
\* load, and the static mirror shows it with one side rounded.
C8_Witness ==
    /\ smirror_original # NoImage
    /\ static_label.pm.w < pageSize.w
    /\ static_label.pm.h < pageSize.h
    /\ smirror_label.w * smirror_original.h # smirror_label.h * smirror_original.w


\* C11: in every reachable state the view's Tool Mode agrees with the toolbar
\* buttons: it is "erase" exactly when Erase is checked, "paint" exactly when
\* Paint is checked, and "none" exactly when neither button is checked.
C11_ToolAgreesWithButtons ==
    /\ (tool = "erase" <=> erase_btn)
    /\ (tool = "paint" <=> paint_btn)
    /\ (tool = "none" <=> (~erase_btn /\ ~paint_btn))

\* C11 witness: Erase is the checked button and the active tool on a loaded
\* image whose overlay has a cleared pixel, a static image being loaded too.
C11_Witness ==
    /\ erase_btn
    /\ ~paint_btn
    /\ tool = "erase"
    /\ static_label.pm # NoImage
    /\ \E p \in DOMAIN overlay_image.px : overlay_image.px[p] = 0

=============================================================================
